---- MODULE Spec2Model ----
(***************************************************************************)
(* BrewTroller Cloud Compiler Service (BTCompiler.go).                     *)
(*                                                                         *)
(* One BuildServer: the poll worker updateTags (bootstrap clone, then the  *)
(* refresh loop calling updateOptions), OptionsHandler and BuildHandler    *)
(* requests running concurrently with it, and the RWMutex bs.mu that       *)
(* guards bs.optionsCache and the local source mirror.                     *)
(***************************************************************************)
EXTENDS Integers, Sequences, FiniteSets, TLC

(***************************************************************************)
(* Bounds of the model.                                                    *)
(***************************************************************************)
\* Number of version tags the upstream repository can hold.
NumTags == 3

\* Most entries strings.Split can yield when the tag listing is any text.
MaxLines == 4

\* The BuildHandler requests in flight at the same time.
Builders == {1}

\* The reader identity of the OptionsHandler request in flight.
OptReader == Cardinality(Builders) + 1

(***************************************************************************)
(* The upstream repository: its version tags and the options file each     *)
(* tag's tree holds (bs.execFolder + OptionsFileName once checked out).    *)
(* A file is modelled by its JSON syntax: absent, or a top-level JSON      *)
(* value; an array lists the kind of each of its elements.                 *)
(***************************************************************************)
TagName(i) == "v1." \o ToString(i) \o ".0"

Tags == {TagName(i) : i \in 1..NumTags}

\* git tag -l lists tags sorted by name.
TagOrder == [i \in 1..NumTags |-> TagName(i)]

DefaultBranch == "master"

Refs == Tags \cup {DefaultBranch}

Absent == [kind |-> "absent", items |-> <<>>]

JNull == [kind |-> "null", items |-> <<>>]

JArray(items) == [kind |-> "array", items |-> items]

JObjectElem(name) == [kind |-> "object", name |-> name]

JNumberElem == [kind |-> "number", name |-> ""]

\* The options file of the tags, in turn: an array of option descriptors, the
\* JSON value null, no file, an array of numbers.
TagFile(i) ==
    CASE i % 4 = 1 -> JArray(<<JObjectElem("OPTION_" \o ToString(i))>>)
      [] i % 4 = 2 -> JNull
      [] i % 4 = 3 -> Absent
      [] OTHER -> JArray(<<JNumberElem>>)

OptionsFile ==
    [ref \in Refs |->
        IF ref \in Tags
        THEN TagFile(CHOOSE i \in 1..NumTags : TagName(i) = ref)
        ELSE JArray(<<JObjectElem("TEMP_UNIT"), JObjectElem("PID")>>)]

(***************************************************************************)
(* json.Unmarshal(opts, &parsedOpts) with parsedOpts of type               *)
(* []map[string]interface{}: JSON null decodes without error to the nil    *)
(* slice; an array decodes when every element is an object (or null); any  *)
(* other value is an error.                                                *)
(***************************************************************************)
NilSlice == [nil |-> TRUE, items |-> <<>>]

UnmarshalOptions(file) ==
    CASE file.kind = "null" -> [err |-> FALSE, val |-> NilSlice]
      [] file.kind = "array" ->
            IF \A i \in 1..Len(file.items) : file.items[i].kind \in {"object", "null"}
            THEN [err |-> FALSE, val |-> [nil |-> FALSE, items |-> file.items]]
            ELSE [err |-> TRUE, val |-> NilSlice]
      [] OTHER -> [err |-> TRUE, val |-> NilSlice]

(***************************************************************************)
(* Maps (Go map[string]...) as functions on a finite set of keys.          *)
(***************************************************************************)
EmptyMap == [k \in {} |-> NilSlice]

MapPut(m, k, v) == [x \in DOMAIN m \cup {k} |-> IF x = k THEN v ELSE m[x]]

MapDelete(m, k) == [x \in DOMAIN m \ {k} |-> m[x]]

(***************************************************************************)
(* State.                                                                  *)
(***************************************************************************)
VARIABLES
    debugMode,      \* the -debug flag
    mu,             \* bs.mu: writer holds, writer pending, readers holding
    optionsCache,   \* bs.optionsCache
    mirror,         \* the local source directory execFolder + SourceDir
    rpc,            \* updateTags: position of the poll worker
    versionTags,    \* updateTags: the versionTags slice
    idx,            \* updateOptions: position of the range loop (1-based)
    optsManifest,   \* updateOptions: the manifest under construction
    published,      \* the complete manifest of the last finished refresh cycle
    opc,            \* OptionsHandler: position
    opts,           \* OptionsHandler: the marshalled snapshot
    home,           \* HomeHandler: the info map of the last response written
    bh,             \* BuildHandler: per request, its locals and response
    workspaces      \* the temp build directories that exist on disk

vars == <<debugMode, mu, optionsCache, mirror, rpc, versionTags, idx,
          optsManifest, published, opc, opts, home, bh, workspaces>>

refresherVars == <<mirror, rpc, versionTags, idx, optsManifest, published>>

optionsVars == <<opc, opts>>

buildVars == <<bh, workspaces>>

(***************************************************************************)
(* sync.RWMutex.  Lock announces the writer (new readers then wait) and    *)
(* returns once the readers have drained; RLock waits while a writer       *)
(* holds the lock or is pending.                                           *)
(***************************************************************************)
CanRLock == ~mu.writer /\ ~mu.pending

CanLock == ~mu.writer /\ mu.readers = {}

RLock(r) == /\ CanRLock
            /\ mu' = [mu EXCEPT !.readers = @ \cup {r}]

RUnlock(r) == mu' = [mu EXCEPT !.readers = @ \ {r}]

LockPending == mu' = [mu EXCEPT !.pending = TRUE]

Lock == /\ CanLock
        /\ mu' = [mu EXCEPT !.writer = TRUE, !.pending = FALSE]

Unlock == mu' = [mu EXCEPT !.writer = FALSE]

\* A panic in the poll worker's goroutine ends the whole process.
Alive == rpc # "panicked"

(***************************************************************************)
(* updateTags, lines 84-90: split the listing on "\n" and drop the blank   *)
(* entries.  The listing is modelled by its lines, each ended by "\n", so  *)
(* strings.Split yields the lines followed by one empty string.  The range *)
(* loop runs over the indices of the slice as it was when the loop began,  *)
(* while the slice shrinks: an index past the current length panics.       *)
(***************************************************************************)
SplitLines(lines) == lines \o <<"">>

RECURSIVE RemoveBlankLoop(_, _, _)
RemoveBlankLoop(vt, i, n) ==
    IF i > n THEN [panic |-> FALSE, tags |-> vt]
    ELSE IF i > Len(vt) THEN [panic |-> TRUE, tags |-> vt]
    ELSE IF vt[i] = ""
         THEN RemoveBlankLoop(SubSeq(vt, 1, i - 1) \o SubSeq(vt, i + 1, Len(vt)), i + 1, n)
         ELSE RemoveBlankLoop(vt, i + 1, n)

RemoveBlankTags(vt) == RemoveBlankLoop(vt, 1, Len(vt))

\* git tag -l "v[0-9]*\.[0-9]*\.[0-9]*" run in the mirror: one line per tag, sorted.
TagListing(tags) == SelectSeq(TagOrder, LAMBDA t : t \in tags)

(***************************************************************************)
(* The poll worker, updateTags.                                            *)
(***************************************************************************)
\* line 45: bs.mu.Lock() is called.
R_BootLockCall ==
    /\ rpc = "start"
    /\ LockPending
    /\ rpc' = "bootLock"
    /\ UNCHANGED <<debugMode, home, optionsCache, mirror, versionTags, idx, optsManifest,
                   published, optionsVars, buildVars>>

\* line 45: bs.mu.Lock() returns.
R_BootLock ==
    /\ rpc = "bootLock"
    /\ Lock
    /\ rpc' = "bootstrap"
    /\ UNCHANGED <<debugMode, home, optionsCache, mirror, versionTags, idx, optsManifest,
                   published, optionsVars, buildVars>>

\* Mutant of R_Bootstrap: the errors of the clone and of os.Stat are dropped
\* and the poll worker goes on.
R_BootstrapErrorDropped ==
    /\ rpc = "bootstrap"
    /\ \E cloneOk \in BOOLEAN, dirExists \in BOOLEAN, upstream \in SUBSET Tags :
          /\ mirror' = IF cloneOk /\ dirExists
                        THEN [exists |-> TRUE, tags |-> upstream, head |-> DefaultBranch]
                        ELSE [exists |-> FALSE, tags |-> {}, head |-> DefaultBranch]
          /\ rpc' = "bootUnlock"
    /\ UNCHANGED <<debugMode, home, mu, optionsCache, versionTags, idx, optsManifest,
                   published, optionsVars, buildVars>>

\* lines 47-59: remove the stale mirror, clone the remote, check the directory.
\* A failed clone or an absent directory panics.
R_Bootstrap ==
    /\ rpc = "bootstrap"
    /\ \E cloneOk \in BOOLEAN, dirExists \in BOOLEAN, upstream \in SUBSET Tags :
          IF cloneOk /\ dirExists
          THEN /\ mirror' = [exists |-> TRUE, tags |-> upstream, head |-> DefaultBranch]
               /\ rpc' = "bootUnlock"
          ELSE /\ mirror' = [exists |-> FALSE, tags |-> {}, head |-> DefaultBranch]
               /\ rpc' = "panicked"
    /\ UNCHANGED <<debugMode, home, mu, optionsCache, versionTags, idx, optsManifest,
                   published, optionsVars, buildVars>>

\* line 60: bs.mu.Unlock().
R_BootUnlock ==
    /\ rpc = "bootUnlock"
    /\ Unlock
    /\ rpc' = "loop"
    /\ UNCHANGED <<debugMode, home, optionsCache, mirror, versionTags, idx, optsManifest,
                   published, optionsVars, buildVars>>

\* line 63: bs.mu.Lock() is called (first pass, or the sleep of line 95 is over).
R_LockCall ==
    /\ rpc = "loop"
    /\ LockPending
    /\ rpc' = "lock"
    /\ UNCHANGED <<debugMode, home, optionsCache, mirror, versionTags, idx, optsManifest,
                   published, optionsVars, buildVars>>

\* line 63: bs.mu.Lock() returns.
R_Lock ==
    /\ rpc = "lock"
    /\ Lock
    /\ rpc' = "deleteTags"
    /\ UNCHANGED <<debugMode, home, optionsCache, mirror, versionTags, idx, optsManifest,
                   published, optionsVars, buildVars>>

\* lines 65-72: git tag -l | xargs git tag -d in the mirror.
R_DeleteTags ==
    /\ rpc = "deleteTags"
    /\ mirror' = [mirror EXCEPT !.tags = {}]
    /\ rpc' = "pull"
    /\ UNCHANGED <<debugMode, home, mu, optionsCache, versionTags, idx, optsManifest,
                   published, optionsVars, buildVars>>

\* lines 75-77: git pull; its error is dropped.  A pull that works fetches the
\* tags upstream has now; one that fails leaves the mirror without tags.
R_Pull ==
    /\ rpc = "pull"
    /\ \E pullOk \in BOOLEAN, upstream \in SUBSET Tags :
          mirror' = [mirror EXCEPT !.tags = IF pullOk THEN upstream ELSE {}]
    /\ rpc' = "list"
    /\ UNCHANGED <<debugMode, home, mu, optionsCache, versionTags, idx, optsManifest,
                   published, optionsVars, buildVars>>

\* lines 80-84: list the version tags and split the output.
R_ListTags ==
    /\ rpc = "list"
    /\ versionTags' = SplitLines(TagListing(mirror.tags))
    /\ rpc' = "filter"
    /\ UNCHANGED <<debugMode, home, mu, optionsCache, mirror, idx, optsManifest,
                   published, optionsVars, buildVars>>

\* lines 86-90 and 102: remove the blank tags; updateOptions starts with an
\* empty manifest.
R_RemoveBlank ==
    /\ rpc = "filter"
    /\ LET r == RemoveBlankTags(versionTags)
       IN  /\ versionTags' = r.tags
           /\ rpc' = IF r.panic THEN "panicked" ELSE "options"
    /\ idx' = 1
    /\ optsManifest' = EmptyMap
    /\ UNCHANGED <<debugMode, home, mu, optionsCache, mirror, published, optionsVars, buildVars>>

(***************************************************************************)
(* updateOptions, lines 105-129: one pass of the range loop, for the tag   *)
(* ver.  git checkout moves the mirror to ver when the mirror has that tag *)
(* (its error is dropped, and the tree then stays where it was); the       *)
(* options file read is the one of the tree checked out.                   *)
(***************************************************************************)
CheckoutIn(repo, ver) == IF ver \in repo.tags THEN [repo EXCEPT !.head = ver] ELSE repo

ManifestWith(manifest, ver, file) ==
    IF file.kind = "absent" THEN manifest
    ELSE IF UnmarshalOptions(file).err THEN manifest
    ELSE MapPut(manifest, ver, UnmarshalOptions(file).val)

\* Mutant of R_UpdateOptionsTag: updateOptions stores each entry straight into
\* bs.optionsCache (emptied at the first tag) and runs with the lock released.
R_UpdateOptionsTagInPlace ==
    /\ rpc = "options"
    /\ idx <= Len(versionTags)
    /\ LET ver == versionTags[idx]
           checkedOut == CheckoutIn(mirror, ver)
           soFar == IF idx = 1 THEN EmptyMap ELSE optionsCache
           next == ManifestWith(soFar, ver, OptionsFile[checkedOut.head])
       IN  /\ mirror' = checkedOut
           /\ optsManifest' = next
           /\ optionsCache' = next
    /\ mu' = [mu EXCEPT !.writer = FALSE]
    /\ idx' = idx + 1
    /\ UNCHANGED <<debugMode, home, rpc, versionTags, published, optionsVars, buildVars>>

R_UpdateOptionsTag ==
    /\ rpc = "options"
    /\ idx <= Len(versionTags)
    /\ LET ver == versionTags[idx]
           checkedOut == CheckoutIn(mirror, ver)
       IN  /\ mirror' = checkedOut
           /\ optsManifest' = ManifestWith(optsManifest, ver, OptionsFile[checkedOut.head])
    /\ idx' = idx + 1
    /\ UNCHANGED <<debugMode, home, mu, optionsCache, rpc, versionTags, published,
                   optionsVars, buildVars>>

\* line 131: bs.optionsCache = optsManifest, once the range loop is over.
R_ReplaceCache ==
    /\ rpc = "options"
    /\ idx > Len(versionTags)
    /\ optionsCache' = optsManifest
    /\ published' = optsManifest
    /\ rpc' = "unlock"
    /\ UNCHANGED <<debugMode, home, mu, mirror, versionTags, idx, optsManifest,
                   optionsVars, buildVars>>

\* Mutant of R_Unlock: updateTags returns after the first cycle instead of
\* sleeping and going round the loop.
R_UnlockAndReturn ==
    /\ rpc = "unlock"
    /\ Unlock
    /\ rpc' = "returned"
    /\ versionTags' = <<>>
    /\ idx' = 1
    /\ optsManifest' = EmptyMap
    /\ UNCHANGED <<debugMode, home, optionsCache, mirror, published, optionsVars, buildVars>>

\* line 94: bs.mu.Unlock(); line 95: time.Sleep(bs.pollPeriod) begins.
R_Unlock ==
    /\ rpc = "unlock"
    /\ Unlock
    /\ rpc' = "loop"
    /\ versionTags' = <<>>
    /\ idx' = 1
    /\ optsManifest' = EmptyMap
    /\ UNCHANGED <<debugMode, home, optionsCache, mirror, published, optionsVars, buildVars>>

Refresher ==
    \/ R_BootLockCall \/ R_BootLock \/ R_Bootstrap \/ R_BootUnlock
    \/ R_LockCall \/ R_Lock \/ R_DeleteTags \/ R_Pull \/ R_ListTags
    \/ R_RemoveBlank \/ R_UpdateOptionsTag \/ R_ReplaceCache \/ R_Unlock

(***************************************************************************)
(* OptionsHandler, lines 199-207.  json.Marshal of the cache is modelled   *)
(* by the manifest it serializes.                                          *)
(***************************************************************************)
\* line 149: a GET /options request is routed to the handler.
O_Begin ==
    /\ Alive
    /\ opc = "idle"
    /\ opc' = "rlock"
    /\ UNCHANGED <<debugMode, home, mu, optionsCache, refresherVars, opts, buildVars>>

\* line 200: bs.mu.RLock().
O_RLock ==
    /\ Alive
    /\ opc = "rlock"
    /\ RLock(OptReader)
    /\ opc' = "marshal"
    /\ UNCHANGED <<debugMode, home, optionsCache, refresherVars, opts, buildVars>>

\* line 201: opts, _ := json.Marshal(bs.optionsCache).
O_Marshal ==
    /\ Alive
    /\ opc = "marshal"
    /\ opts' = optionsCache
    /\ opc' = "runlock"
    /\ UNCHANGED <<debugMode, home, mu, optionsCache, refresherVars, buildVars>>

\* Mutant of O_RUnlockWrite: the handler writes opts and returns with the
\* shared lock held.
O_WriteNoRUnlock ==
    /\ Alive
    /\ opc = "runlock"
    /\ opc' = "idle"
    /\ opts' = EmptyMap
    /\ UNCHANGED <<debugMode, home, mu, optionsCache, refresherVars, buildVars>>

\* lines 202-206: bs.mu.RUnlock(); opts is written as the response and the
\* handler returns.
O_RUnlockWrite ==
    /\ Alive
    /\ opc = "runlock"
    /\ RUnlock(OptReader)
    /\ opc' = "idle"
    /\ opts' = EmptyMap
    /\ UNCHANGED <<debugMode, home, optionsCache, refresherVars, buildVars>>

OptionsHandler == O_Begin \/ O_RLock \/ O_Marshal \/ O_RUnlockWrite

(***************************************************************************)
(* HomeHandler, lines 184-197: the info map is built and written; in debug *)
(* mode it holds the output of uname -a.  No lock is taken.                *)
(***************************************************************************)
app == "BrewTroller Cloud Compiler Service"

\* const version; InvalidVersionError and CloneOf have a parameter of that name.
appVersion == "1.0.0"

NoInfo == [k \in {} |-> ""]

Uname == "Linux buildhost 4.4.0 x86_64 GNU/Linux"

HomeHandler ==
    /\ Alive
    /\ home' = [app |-> app, version |-> appVersion]
                @@ (IF debugMode THEN [host |-> Uname] ELSE NoInfo)
    /\ UNCHANGED <<debugMode, mu, optionsCache, refresherVars, optionsVars, buildVars>>

(***************************************************************************)
(* POST /build: the request bodies.  A body is modelled by its JSON        *)
(* syntax: text that is not JSON, a JSON value that is no object, or an    *)
(* object with its members.                                                *)
(***************************************************************************)
ReqVersions == {TagName(1), "v9.9.9"}

JStr(s) == [t |-> "string", s |-> s, n |-> 0]

JNum(n) == [t |-> "number", s |-> "", n |-> n]

NoMember == [t |-> "none", s |-> "", n |-> 0]

BoardMembers == {NoMember, JStr("mega2560"), JNum(1)}

VersionMembers == {NoMember, JNum(1)} \cup {JStr(v) : v \in ReqVersions}

ExtraMembers == {NoMember, JStr("F")}

KeyOrder == <<"board", "BuildVersion", "TEMP_UNIT", "PID">>

ObjectBody(board, ver, unit, pid) ==
    LET all == [k \in {"board", "BuildVersion", "TEMP_UNIT", "PID"} |->
                    CASE k = "board" -> board
                      [] k = "BuildVersion" -> ver
                      [] k = "TEMP_UNIT" -> unit
                      [] OTHER -> pid]
    IN  [kind |-> "object",
         members |-> [k \in {x \in DOMAIN all : all[x].t # "none"} |-> all[k]]]

NoMembers == [k \in {} |-> NoMember]

NotJSONBody == [kind |-> "garbage", members |-> NoMembers]

ArrayBody == [kind |-> "array", members |-> NoMembers]

NullBody == [kind |-> "null", members |-> NoMembers]

Bodies ==
    {NotJSONBody, ArrayBody, NullBody}
    \cup {ObjectBody(b, v, u, IF u.t = "none" THEN NoMember ELSE JNum(5)) :
            b \in BoardMembers, v \in VersionMembers, u \in ExtraMembers}

\* string(reqData): the text of a body.
RenderValue(j) == IF j.t = "string" THEN "\"" \o j.s \o "\"" ELSE ToString(j.n)

RECURSIVE RenderMembers(_, _)
RenderMembers(members, i) ==
    IF i > Len(KeyOrder) THEN ""
    ELSE LET k == KeyOrder[i]
         IN  (IF k \in DOMAIN members
              THEN "\"" \o k \o "\":" \o RenderValue(members[k]) \o ";"
              ELSE "") \o RenderMembers(members, i + 1)

RawText(body) ==
    CASE body.kind = "garbage" -> "{board:"
      [] body.kind = "array" -> "[]"
      [] body.kind = "null" -> "null"
      [] OTHER -> "{" \o RenderMembers(body.members, 1) \o "}"

(***************************************************************************)
(* json.Unmarshal(reqData, &optsMap) with optsMap a map[string]interface{}:*)
(* text that is not JSON and a value that is no object are errors; null    *)
(* leaves the map as made (empty); an object's members decode to a Go      *)
(* string for a JSON string and to a float64 for every JSON number.        *)
(***************************************************************************)
GoValue(j) == [type |-> IF j.t = "string" THEN "string" ELSE "float64", s |-> j.s, n |-> j.n]

NoGoValues == [k \in {} |-> GoValue(NoMember)]

UnmarshalRequest(body) ==
    CASE body.kind = "object" ->
            [err |-> FALSE, map |-> [k \in DOMAIN body.members |-> GoValue(body.members[k])]]
      [] body.kind = "null" -> [err |-> FALSE, map |-> NoGoValues]
      [] OTHER -> [err |-> TRUE, map |-> NoGoValues]

\* optsMap[key].(string): the value and whether the assertion held.
StringAssert(map, key) ==
    IF key \in DOMAIN map /\ map[key].type = "string"
    THEN [found |-> TRUE, val |-> map[key].s]
    ELSE [found |-> FALSE, val |-> ""]

(***************************************************************************)
(* makeErrorResonse, lines 154-182.  The body is modelled by the map that  *)
(* json.Marshal encodes.  fmt.Sprintf("context%i", i) has no verb i: the   *)
(* key it yields is context%!i(int=<i>).                                   *)
(***************************************************************************)
ContextKey(i) == "context%!i(int=" \o ToString(i) \o ")"

GenericMessage(code) ==
    CASE code = "500" -> [message |-> "Internal Server Error"]
      [] code = "400" -> [message |-> "Bad Request"]
      [] OTHER -> [k \in {} |-> ""]

\* Mutant of makeErrorResonse: the context is added whatever the mode.
makeErrorResonseWithContext(code, err, context) ==
    LET em == IF debugMode THEN [code |-> code, message |-> err]
              ELSE [code |-> code] @@ GenericMessage(code)
        ctx == [k \in {ContextKey(i - 1) : i \in 1..Len(context)} |->
                   context[CHOOSE i \in 1..Len(context) : ContextKey(i - 1) = k]]
    IN  em @@ ctx

makeErrorResonse(code, err, context) ==
    LET em == IF debugMode THEN [code |-> code, message |-> err]
              ELSE [code |-> code] @@ GenericMessage(code)
        ctx == IF debugMode
               THEN [k \in {ContextKey(i - 1) : i \in 1..Len(context)} |->
                        context[CHOOSE i \in 1..Len(context) : ContextKey(i - 1) = k]]
               ELSE [k \in {} |-> ""]
    IN  em @@ ctx

(***************************************************************************)
(* BuildHandler, lines 209-387: the locals of one request.                 *)
(***************************************************************************)
StatusOK == 200

StatusBadRequest == 400

StatusInternalServerError == 500

ToolOutputs == {"output-a", "output-b"}

NoRepo == [exists |-> FALSE, tags |-> {}, head |-> DefaultBranch]

NoResponse == [written |-> 0, status |-> 0, body |-> [k \in {} |-> ""]]

NoCalls == [clone |-> 0, checkout |-> 0, cmake |-> 0, make |-> 0, artifact |-> 0]

NewRequest ==
    [pc |-> "idle", reqData |-> NullBody, tempDir |-> "", deferred |-> FALSE,
     optsMap |-> NoGoValues, board |-> "", version |-> "", looked |-> FALSE,
     validVer |-> FALSE,
     cmakeOpts |-> <<>>, ws |-> NoRepo, cmakeOut |-> "", makeOut |-> "",
     calls |-> NoCalls, cause |-> "", resp |-> NoResponse]

\* lines 212-213: the request id made of the remote address.
ReqID(b) == "10_0_0_" \o ToString(b) \o "-5000" \o ToString(b) \o "-"

TempDirName(b) == "/tmp/" \o ReqID(b) \o "1"

\* An error response: makeErrorResonse, WriteHeader, Write, return.
ErrorExit(r, status, code, err, context, cause) ==
    [r EXCEPT !.pc = "return",
              !.cause = cause,
              !.resp = [written |-> r.resp.written + 1, status |-> status,
                        body |-> makeErrorResonse(code, err, context)]]

\* lines 212-225: ioutil.TempDir; on success the removal is deferred.
BH_TempDir(b) ==
    /\ Alive
    /\ bh[b].pc \in {"idle", "done"}
    /\ \E ok \in BOOLEAN :
          IF ok
          THEN /\ bh' = [bh EXCEPT ![b] = [NewRequest EXCEPT !.pc = "readBody",
                                                             !.tempDir = TempDirName(b),
                                                             !.deferred = TRUE]]
               /\ workspaces' = workspaces \cup {b}
          ELSE /\ bh' = [bh EXCEPT ![b] = ErrorExit(NewRequest, StatusInternalServerError,
                                                    "500", "mkdir: no space left on device",
                                                    <<>>, "tempdir")]
               /\ UNCHANGED workspaces
    /\ UNCHANGED <<debugMode, home, mu, optionsCache, refresherVars, optionsVars>>

\* lines 228-237: ioutil.ReadAll(req.Body).
BH_ReadBody(b) ==
    /\ Alive
    /\ bh[b].pc = "readBody"
    /\ \/ \E body \in Bodies :
            bh' = [bh EXCEPT ![b].pc = "unmarshal", ![b].reqData = body]
       \/ bh' = [bh EXCEPT ![b] = ErrorExit(@, StatusInternalServerError, "500",
                                            "unexpected EOF", <<>>, "readBody")]
    /\ UNCHANGED <<debugMode, home, mu, optionsCache, refresherVars, optionsVars, workspaces>>

\* Mutant of BH_Unmarshal: a body that does not decode is answered as a server
\* error.
BH_UnmarshalServerError(b) ==
    /\ Alive
    /\ bh[b].pc = "unmarshal"
    /\ LET u == UnmarshalRequest(bh[b].reqData)
       IN  bh' = IF u.err
                 THEN [bh EXCEPT ![b] = ErrorExit(@, StatusInternalServerError, "500",
                                                  "invalid character in JSON input",
                                                  <<>>, "malformed")]
                 ELSE [bh EXCEPT ![b].pc = "board", ![b].optsMap = u.map]
    /\ UNCHANGED <<debugMode, home, mu, optionsCache, refresherVars, optionsVars, workspaces>>

\* lines 240-250: json.Unmarshal(reqData, &optsMap).
BH_Unmarshal(b) ==
    /\ Alive
    /\ bh[b].pc = "unmarshal"
    /\ LET u == UnmarshalRequest(bh[b].reqData)
       IN  bh' = IF u.err
                 THEN [bh EXCEPT ![b] = ErrorExit(@, StatusBadRequest, "400",
                                                  "invalid character in JSON input",
                                                  <<>>, "malformed")]
                 ELSE [bh EXCEPT ![b].pc = "board", ![b].optsMap = u.map]
    /\ UNCHANGED <<debugMode, home, mu, optionsCache, refresherVars, optionsVars, workspaces>>

\* Mutant of BH_Board: found is not looked at.
BH_BoardUnchecked(b) ==
    /\ Alive
    /\ bh[b].pc = "board"
    /\ bh' = [bh EXCEPT ![b].pc = "version",
                        ![b].board = StringAssert(bh[b].optsMap, "board").val]
    /\ UNCHANGED <<debugMode, home, mu, optionsCache, refresherVars, optionsVars, workspaces>>

\* lines 253-261: board, found := optsMap["board"].(string).
BH_Board(b) ==
    /\ Alive
    /\ bh[b].pc = "board"
    /\ LET a == StringAssert(bh[b].optsMap, "board")
       IN  bh' = IF ~a.found
                 THEN [bh EXCEPT ![b] = ErrorExit(@, StatusBadRequest, "400",
                                                  "Board Option Must be Supplied!",
                                                  <<>>, "noBoard")]
                 ELSE [bh EXCEPT ![b].pc = "version", ![b].board = a.val]
    /\ UNCHANGED <<debugMode, home, mu, optionsCache, refresherVars, optionsVars, workspaces>>

\* lines 264-272: version, found := optsMap["BuildVersion"].(string).
BH_Version(b) ==
    /\ Alive
    /\ bh[b].pc = "version"
    /\ LET a == StringAssert(bh[b].optsMap, "BuildVersion")
       IN  bh' = IF ~a.found
                 THEN [bh EXCEPT ![b] = ErrorExit(@, StatusBadRequest, "400",
                                                  "Build Version Must be Supplied!",
                                                  <<>>, "noVersion")]
                 ELSE [bh EXCEPT ![b].pc = "rlock1", ![b].version = a.val]
    /\ UNCHANGED <<debugMode, home, mu, optionsCache, refresherVars, optionsVars, workspaces>>

\* line 274: bs.mu.RLock().
BH_RLock1(b) ==
    /\ Alive
    /\ bh[b].pc = "rlock1"
    /\ RLock(b)
    /\ bh' = [bh EXCEPT ![b].pc = "lookup"]
    /\ UNCHANGED <<debugMode, home, optionsCache, refresherVars, optionsVars, workspaces>>

\* Mutant of BH_Lookup: the lookup leaves an entry for a version it did not
\* find.
BH_LookupCreatesEntry(b) ==
    /\ Alive
    /\ bh[b].pc = "lookup"
    /\ bh' = [bh EXCEPT ![b].pc = "runlock1",
                        ![b].looked = TRUE,
                        ![b].validVer = (bh[b].version \in DOMAIN optionsCache)]
    /\ optionsCache' = IF bh[b].version \in DOMAIN optionsCache THEN optionsCache
                       ELSE MapPut(optionsCache, bh[b].version, NilSlice)
    /\ UNCHANGED <<debugMode, home, mu, refresherVars, optionsVars, workspaces>>

\* line 275: _, validVer := bs.optionsCache[version].
BH_Lookup(b) ==
    /\ Alive
    /\ bh[b].pc = "lookup"
    /\ bh' = [bh EXCEPT ![b].pc = "runlock1",
                        ![b].looked = TRUE,
                        ![b].validVer = (bh[b].version \in DOMAIN optionsCache)]
    /\ UNCHANGED <<debugMode, home, mu, optionsCache, refresherVars, optionsVars, workspaces>>

\* Mutant of BH_RUnlock1: the shared lock is kept until the clone is done.
BH_RUnlock1Kept(b) ==
    /\ Alive
    /\ bh[b].pc = "runlock1"
    /\ bh' = [bh EXCEPT ![b].pc = "valid"]
    /\ UNCHANGED <<debugMode, home, mu, optionsCache, refresherVars, optionsVars, workspaces>>

\* line 276: bs.mu.RUnlock().
BH_RUnlock1(b) ==
    /\ Alive
    /\ bh[b].pc = "runlock1"
    /\ RUnlock(b)
    /\ bh' = [bh EXCEPT ![b].pc = "valid"]
    /\ UNCHANGED <<debugMode, home, optionsCache, refresherVars, optionsVars, workspaces>>

InvalidVersionError(version) == "Build Version " \o version \o " is invalid!"

\* Mutant of BH_CheckValid: validVer is not looked at.
BH_CheckValidSkipped(b) ==
    /\ Alive
    /\ bh[b].pc = "valid"
    /\ bh' = [bh EXCEPT ![b].pc = "flags"]
    /\ UNCHANGED <<debugMode, home, mu, optionsCache, refresherVars, optionsVars, workspaces>>

\* lines 277-284: an unknown version is refused.
BH_CheckValid(b) ==
    /\ Alive
    /\ bh[b].pc = "valid"
    /\ bh' = IF ~bh[b].validVer
             THEN [bh EXCEPT ![b] = ErrorExit(@, StatusBadRequest, "400",
                                              InvalidVersionError(bh[b].version),
                                              <<>>, "unknownVersion")]
             ELSE [bh EXCEPT ![b].pc = "flags"]
    /\ UNCHANGED <<debugMode, home, mu, optionsCache, refresherVars, optionsVars, workspaces>>

(***************************************************************************)
(* Lines 287-304: BuildVersion is deleted from optsMap and each remaining  *)
(* entry is turned into a cmake option by the type switch: the string case *)
(* formats -D<k>=<val>, the int case -D<k>=<val> in decimal, any other     *)
(* dynamic type adds nothing.  The range over the map visits the keys in   *)
(* an order that is not fixed; tempDir is appended last.                   *)
(***************************************************************************)
CmakeOption(k, v) ==
    CASE v.type = "string" -> <<"-D" \o k \o "=" \o v.s>>
      [] v.type = "int" -> <<"-D" \o k \o "=" \o ToString(v.n)>>
      [] OTHER -> <<>>

KeyOrders(S) ==
    {f \in [1..Cardinality(S) -> S] : \A i, j \in 1..Cardinality(S) : f[i] = f[j] => i = j}

RECURSIVE OptionsInOrder(_, _, _)
OptionsInOrder(map, order, i) ==
    IF i > Len(order) THEN <<>>
    ELSE CmakeOption(order[i], map[order[i]]) \o OptionsInOrder(map, order, i + 1)

\* Mutant of BH_Flags: BuildVersion is left in optsMap.
BH_FlagsKeepVersion(b) ==
    /\ Alive
    /\ bh[b].pc = "flags"
    /\ LET m == bh[b].optsMap
       IN  \E order \in KeyOrders(DOMAIN m) :
              bh' = [bh EXCEPT ![b].pc = "rlock2",
                               ![b].cmakeOpts = OptionsInOrder(m, order, 1)
                                                    \o <<bh[b].tempDir>>]
    /\ UNCHANGED <<debugMode, home, mu, optionsCache, refresherVars, optionsVars, workspaces>>

BH_Flags(b) ==
    /\ Alive
    /\ bh[b].pc = "flags"
    /\ LET m == MapDelete(bh[b].optsMap, "BuildVersion")
       IN  \E order \in KeyOrders(DOMAIN m) :
              bh' = [bh EXCEPT ![b].pc = "rlock2",
                               ![b].optsMap = m,
                               ![b].cmakeOpts = OptionsInOrder(m, order, 1)
                                                    \o <<bh[b].tempDir>>]
    /\ UNCHANGED <<debugMode, home, mu, optionsCache, refresherVars, optionsVars, workspaces>>

\* Mutant of BH_RLock2: the clone is started without taking the lock.
BH_RLock2Missing(b) ==
    /\ Alive
    /\ bh[b].pc = "rlock2"
    /\ bh' = [bh EXCEPT ![b].pc = "cloning"]
    /\ UNCHANGED <<debugMode, home, mu, optionsCache, refresherVars, optionsVars, workspaces>>

\* line 309: bs.mu.RLock().
BH_RLock2(b) ==
    /\ Alive
    /\ bh[b].pc = "rlock2"
    /\ RLock(b)
    /\ bh' = [bh EXCEPT ![b].pc = "cloning"]
    /\ UNCHANGED <<debugMode, home, optionsCache, refresherVars, optionsVars, workspaces>>

\* line 310: cloneCmd.Run(), git clone of the mirror into tempDir; its error is
\* dropped.  A clone that works copies the mirror's tags and its checked-out
\* tree; of the tags copied, the state keeps the one this request checks out.
CloneOf(repo, version) == [repo EXCEPT !.tags = @ \cap {version}]

BH_Clone(b) ==
    /\ Alive
    /\ bh[b].pc = "cloning"
    /\ \E ok \in BOOLEAN :
          bh' = [bh EXCEPT ![b].pc = "runlock2",
                           ![b].calls.clone = @ + 1,
                           ![b].ws = IF ok /\ mirror.exists
                                     THEN CloneOf(mirror, bh[b].version)
                                     ELSE NoRepo]
    /\ UNCHANGED <<debugMode, home, mu, optionsCache, refresherVars, optionsVars, workspaces>>

\* line 311: bs.mu.RUnlock().
BH_RUnlock2(b) ==
    /\ Alive
    /\ bh[b].pc = "runlock2"
    /\ RUnlock(b)
    /\ bh' = [bh EXCEPT ![b].pc = "checkout"]
    /\ UNCHANGED <<debugMode, home, optionsCache, refresherVars, optionsVars, workspaces>>

\* lines 314-319: git checkout version in tempDir (its error is dropped), then
\* the build directory is made.
BH_Checkout(b) ==
    /\ Alive
    /\ bh[b].pc = "checkout"
    /\ bh' = [bh EXCEPT ![b].pc = "settings",
                        ![b].calls.checkout = @ + 1,
                        ![b].ws = IF bh[b].ws.exists
                                  THEN CheckoutIn(bh[b].ws, bh[b].version)
                                  ELSE bh[b].ws]
    /\ UNCHANGED <<debugMode, home, mu, optionsCache, refresherVars, optionsVars, workspaces>>

\* lines 322-331: the request is saved as user_config.json.
BH_WriteSettings(b) ==
    /\ Alive
    /\ bh[b].pc = "settings"
    /\ \/ bh' = [bh EXCEPT ![b].pc = "cmake"]
       \/ bh' = [bh EXCEPT ![b] = ErrorExit(@, StatusInternalServerError, "500",
                                            "write user_config.json: no space left on device",
                                            <<>>, "settings")]
    /\ UNCHANGED <<debugMode, home, mu, optionsCache, refresherVars, optionsVars, workspaces>>

\* Mutant of BH_Cmake: the error of cmake is dropped and the build goes on.
BH_CmakeErrorDropped(b) ==
    /\ Alive
    /\ bh[b].pc = "cmake"
    /\ \E out \in ToolOutputs, exitOk \in BOOLEAN :
          bh' = [bh EXCEPT ![b].pc = "make",
                           ![b].calls.cmake = @ + 1,
                           ![b].cmakeOut = out,
                           ![b].cause = IF exitOk THEN "" ELSE "cmake"]
    /\ UNCHANGED <<debugMode, home, mu, optionsCache, refresherVars, optionsVars, workspaces>>

\* lines 334-345: cmake with cmakeOpts, in the build directory.
BH_Cmake(b) ==
    /\ Alive
    /\ bh[b].pc = "cmake"
    /\ \E out \in ToolOutputs, exitOk \in BOOLEAN :
          LET r == [bh[b] EXCEPT !.calls.cmake = @ + 1, !.cmakeOut = out]
          IN  bh' = IF exitOk
                    THEN [bh EXCEPT ![b] = [r EXCEPT !.pc = "make"]]
                    ELSE [bh EXCEPT ![b] = ErrorExit(r, StatusInternalServerError, "500",
                                                     "exit status 1", <<out>>, "cmake")]
    /\ UNCHANGED <<debugMode, home, mu, optionsCache, refresherVars, optionsVars, workspaces>>

\* Mutant of BH_Make: the error of make is dropped and the image is read.
BH_MakeErrorDropped(b) ==
    /\ Alive
    /\ bh[b].pc = "make"
    /\ \E out \in ToolOutputs, exitOk \in BOOLEAN :
          bh' = [bh EXCEPT ![b].pc = "artifact",
                           ![b].calls.make = @ + 1,
                           ![b].makeOut = out,
                           ![b].cause = IF exitOk THEN "" ELSE "make"]
    /\ UNCHANGED <<debugMode, home, mu, optionsCache, refresherVars, optionsVars, workspaces>>

\* lines 348-358: make, in the build directory.
BH_Make(b) ==
    /\ Alive
    /\ bh[b].pc = "make"
    /\ \E out \in ToolOutputs, exitOk \in BOOLEAN :
          LET r == [bh[b] EXCEPT !.calls.make = @ + 1, !.makeOut = out]
          IN  bh' = IF exitOk
                    THEN [bh EXCEPT ![b] = [r EXCEPT !.pc = "artifact"]]
                    ELSE [bh EXCEPT ![b] = ErrorExit(r, StatusInternalServerError, "500",
                                                     "exit status 2", <<out>>, "make")]
    /\ UNCHANGED <<debugMode, home, mu, optionsCache, refresherVars, optionsVars, workspaces>>

\* The image make leaves for a board, built from the tree checked out in tempDir.
Artifact(board, ws) ==
    "BrewTroller-" \o board \o ".hex built at "
        \o (IF ws.exists THEN ws.head ELSE "nothing")

\* lines 371-386: the response of a build that worked.
SuccessBody(b, r) ==
    [binary |-> Artifact(r.board, r.ws)]
    @@ (IF debugMode
        THEN [reqID |-> ReqID(b), buildLocation |-> r.tempDir,
              reqDat |-> RawText(r.reqData)]
             @@ ("cmake-output" :> r.cmakeOut) @@ ("make-output" :> r.makeOut)
        ELSE [k \in {} |-> ""])

\* lines 361-386: the image is read and sent.
BH_Artifact(b) ==
    /\ Alive
    /\ bh[b].pc = "artifact"
    /\ LET r == [bh[b] EXCEPT !.calls.artifact = @ + 1]
       IN  \/ bh' = [bh EXCEPT ![b] =
                        [r EXCEPT !.pc = "return",
                                  !.resp = [written |-> r.resp.written + 1,
                                            status |-> StatusOK,
                                            body |-> SuccessBody(b, r)]]]
           \/ bh' = [bh EXCEPT ![b] = ErrorExit(r, StatusInternalServerError, "500",
                                                "open hex: no such file or directory",
                                                <<>>, "artifact")]
    /\ UNCHANGED <<debugMode, home, mu, optionsCache, refresherVars, optionsVars, workspaces>>

\* Mutant of BH_Return: the temp directory is removed at the end of the
\* function body, which only a build that worked reaches, instead of deferred.
BH_ReturnRemoveAtEnd(b) ==
    /\ Alive
    /\ bh[b].pc = "return"
    /\ bh' = [bh EXCEPT ![b] = [NewRequest EXCEPT !.pc = "done",
                                                  !.deferred = bh[b].deferred,
                                                  !.cause = bh[b].cause,
                                                  !.resp.written = bh[b].resp.written,
                                                  !.resp.status = bh[b].resp.status]]
    /\ workspaces' = IF bh[b].deferred /\ bh[b].resp.status = StatusOK
                     THEN workspaces \ {b} ELSE workspaces
    /\ UNCHANGED <<debugMode, home, mu, optionsCache, refresherVars, optionsVars>>

\* The handler returns: the deferred os.RemoveAll(tempDir) of line 225 runs.
\* The locals are gone; the state keeps what ended the request, the status
\* that was sent and whether the request had a temp directory.
BH_Return(b) ==
    /\ Alive
    /\ bh[b].pc = "return"
    /\ bh' = [bh EXCEPT ![b] = [NewRequest EXCEPT !.pc = "done",
                                                  !.deferred = bh[b].deferred,
                                                  !.cause = bh[b].cause,
                                                  !.resp.written = bh[b].resp.written,
                                                  !.resp.status = bh[b].resp.status]]
    /\ workspaces' = IF bh[b].deferred THEN workspaces \ {b} ELSE workspaces
    /\ UNCHANGED <<debugMode, home, mu, optionsCache, refresherVars, optionsVars>>

BuildHandler(b) ==
    \/ BH_TempDir(b) \/ BH_ReadBody(b) \/ BH_Unmarshal(b) \/ BH_Board(b)
    \/ BH_Version(b) \/ BH_RLock1(b) \/ BH_Lookup(b) \/ BH_RUnlock1(b)
    \/ BH_CheckValid(b) \/ BH_Flags(b) \/ BH_RLock2(b) \/ BH_Clone(b)
    \/ BH_RUnlock2(b) \/ BH_Checkout(b) \/ BH_WriteSettings(b) \/ BH_Cmake(b)
    \/ BH_Make(b) \/ BH_Artifact(b) \/ BH_Return(b)

(***************************************************************************)
(* The service: NewServer starts the poll worker with an empty cache and   *)
(* main serves requests.  Spec has the goroutines that use bs.mu: the poll *)
(* worker, OptionsHandler and BuildHandler; ServiceSpec below adds         *)
(* HomeHandler.                                                            *)
(***************************************************************************)
Init ==
    /\ debugMode \in BOOLEAN
    /\ mu = [writer |-> FALSE, pending |-> FALSE, readers |-> {}]
    /\ optionsCache = EmptyMap
    /\ mirror = NoRepo
    /\ rpc = "start"
    /\ versionTags = <<>>
    /\ idx = 1
    /\ optsManifest = EmptyMap
    /\ published = EmptyMap
    /\ opc = "idle"
    /\ opts = EmptyMap
    /\ home = NoInfo
    /\ bh = [b \in Builders |-> NewRequest]
    /\ workspaces = {}

Next ==
    \/ Refresher
    \/ OptionsHandler
    \/ \E b \in Builders : BuildHandler(b)

Spec == Init /\ [][Next]_vars

(***************************************************************************)
(* One refresh cycle from the tag listing of line 82 on, with the output   *)
(* of the listing left open: list is any text, so                          *)
(* strings.Split(string(list), "\n") yields any sequence of at least one   *)
(* entry, blank or not.  The cycle is the first one after a bootstrap and  *)
(* a pull that brought every tag.                                          *)
(***************************************************************************)
AnyListings == UNION {[1..n -> {""} \cup Tags] : n \in 1..MaxLines}

\* lines 80-84 with any output of the listing.
R_ListTagsAny ==
    /\ rpc = "list"
    /\ \E entries \in AnyListings : versionTags' = entries
    /\ rpc' = "filter"
    /\ UNCHANGED <<debugMode, home, mu, optionsCache, mirror, idx, optsManifest,
                   published, optionsVars, buildVars>>

FilterInit ==
    /\ debugMode \in BOOLEAN
    /\ mu = [writer |-> TRUE, pending |-> FALSE, readers |-> {}]
    /\ optionsCache = EmptyMap
    /\ mirror = [exists |-> TRUE, tags |-> Tags, head |-> DefaultBranch]
    /\ rpc = "list"
    /\ versionTags = <<>>
    /\ idx = 1
    /\ optsManifest = EmptyMap
    /\ published = EmptyMap
    /\ opc = "idle"
    /\ opts = EmptyMap
    /\ home = NoInfo
    /\ bh = [b \in Builders |-> NewRequest]
    /\ workspaces = {}

FilterNext ==
    \/ R_ListTagsAny \/ R_RemoveBlank \/ R_UpdateOptionsTag
    \/ R_ReplaceCache \/ R_Unlock

FilterSpec == FilterInit /\ [][FilterNext]_vars

(***************************************************************************)
(* The claims.                                                             *)
(***************************************************************************)
\* The poll worker is between a Lock that returned and its Unlock.
RefresherInBody ==
    rpc \in {"bootstrap", "bootUnlock", "deleteTags", "pull", "list", "filter",
             "options", "unlock"}

\* C1: every read of the cache (the snapshot OptionsHandler marshals, the
\* membership test of BuildHandler) sees the complete manifest of the last
\* finished refresh cycle, or the empty cache before the first one; never a
\* manifest under construction.
C1_ReadsSeeCompleteManifest ==
    /\ opc = "runlock" => opts = published
    /\ \A b \in Builders :
          bh[b].pc = "runlock1" =>
              bh[b].validVer = (bh[b].version \in DOMAIN published)

\* A snapshot with entries is held while the poll worker waits for the lock.
C1_Witness == opc = "runlock" /\ DOMAIN opts # {} /\ rpc = "lock" /\ mu.pending

\* C2: the poll worker holds the exclusive lock for the whole bootstrap and the
\* whole body of every refresh cycle, every clone of the mirror runs under the
\* shared lock, and no clone runs while the poll worker is in either.
C2_NoCloneDuringMirrorMutation ==
    /\ RefresherInBody => (mu.writer /\ mu.readers = {})
    /\ \A b \in Builders : bh[b].pc = "cloning" => (b \in mu.readers /\ ~mu.writer)
    /\ ~(RefresherInBody /\ \E b \in Builders : bh[b].pc = "cloning")

\* A clone is running and the poll worker's Lock call waits for it.
C2_Witness == \E b \in Builders : bh[b].pc = "cloning" /\ rpc = "lock" /\ mu.pending

\* The request's version was looked up in the cache and was not a key of it.
UnknownVersion(r) == r.looked /\ ~r.validVer

\* C3 as stated: a request whose BuildVersion is no key of the cache when it is
\* validated gets a 400 response that names the version, and no clone,
\* checkout, cmake or make is run for it.
C3_UnknownVersionNamed ==
    \A b \in Builders :
        LET r == bh[b]
        IN  /\ r.pc = "runlock1" => r.validVer = (r.version \in DOMAIN optionsCache)
            /\ UnknownVersion(r) =>
                  /\ r.pc \in {"runlock1", "valid", "return"}
                  /\ r.calls = NoCalls
                  /\ r.pc = "return" =>
                        /\ r.resp.status = 400
                        /\ r.resp.body.message = "Build Version " \o r.version \o " is invalid!"

\* C3 amended: such a request gets a 400 response with code "400" and runs no
\* clone, checkout, cmake or make; the message names the version in debug mode
\* and is "Bad Request" outside it.
C3_UnknownVersionRefused ==
    \A b \in Builders :
        LET r == bh[b]
        IN  /\ r.pc = "runlock1" => r.validVer = (r.version \in DOMAIN optionsCache)
            /\ UnknownVersion(r) =>
                  /\ r.pc \in {"runlock1", "valid", "return"}
                  /\ r.calls = NoCalls
                  /\ r.pc = "return" =>
                        /\ r.resp.status = 400
                        /\ r.resp.written = 1
                        /\ r.resp.body.code = "400"
                        /\ r.resp.body.message =
                              IF debugMode
                              THEN "Build Version " \o r.version \o " is invalid!"
                              ELSE "Bad Request"

\* An unknown version was refused while the cache had entries.
C3_Witness ==
    \E b \in Builders :
        /\ bh[b].pc = "return" /\ UnknownVersion(bh[b])
        /\ debugMode /\ DOMAIN optionsCache # {}

\* C4: the temp directory of a request is gone once the handler has returned,
\* whatever the response was, and is there as long as the handler runs.
C4_WorkspaceRemoved ==
    \A b \in Builders :
        /\ bh[b].pc \in {"idle", "done"} => b \notin workspaces
        /\ (bh[b].pc \notin {"idle", "done"} /\ bh[b].deferred) => b \in workspaces

\* A request that had a temp directory has returned after a server error.
C4_Witness ==
    \E b \in Builders :
        /\ bh[b].pc = "done" /\ bh[b].deferred
        /\ bh[b].resp.status = 500 /\ b \notin workspaces

\* The body has no string member board, or no string member BuildVersion.
LacksRequired(body) ==
    ~ /\ body.kind = "object"
      /\ \A k \in {"board", "BuildVersion"} :
            k \in DOMAIN body.members /\ body.members[k].t = "string"

BodyWasRead(r) == r.pc \notin {"idle", "readBody", "done"} /\ r.cause \notin {"tempdir", "readBody"}

\* C5 as stated: a request whose body lacks board or BuildVersion is answered
\* 400 before any temp directory is made for it.
C5_RefusedBeforeWorkspace ==
    \A b \in Builders :
        (BodyWasRead(bh[b]) /\ LacksRequired(bh[b].reqData) /\ bh[b].pc = "return") =>
            /\ bh[b].resp.status = 400
            /\ ~bh[b].deferred
            /\ b \notin workspaces

\* C5 amended: a request whose body was read and lacks board or BuildVersion is
\* answered 400 without any clone, checkout, cmake or make; its temp directory
\* was made before the body was looked at and is removed when the handler
\* returns.
C5_RefusedAndCleaned ==
    \A b \in Builders :
        LET r == bh[b]
        IN  /\ (BodyWasRead(r) /\ LacksRequired(r.reqData)) =>
                  /\ r.pc \in {"unmarshal", "board", "version", "return"}
                  /\ r.deferred /\ b \in workspaces
                  /\ r.calls = NoCalls
                  /\ r.pc = "return" =>
                        /\ r.resp.status = 400
                        /\ r.resp.body.code = "400"
                        /\ r.cause \in {"malformed", "noBoard", "noVersion"}
            /\ (r.pc = "done" /\ r.cause \in {"malformed", "noBoard", "noVersion"}) =>
                  /\ r.resp.status = 400
                  /\ r.deferred /\ b \notin workspaces

\* A request without board has returned and its temp directory is gone.
C5_Witness ==
    \E b \in Builders :
        bh[b].pc = "done" /\ bh[b].cause = "noBoard" /\ bh[b].deferred /\ b \notin workspaces

\* The file holds a JSON array of option descriptors (JSON objects).
IsDescriptorArray(file) ==
    /\ file.kind = "array"
    /\ \A i \in 1..Len(file.items) : file.items[i].kind = "object"

ListedTags == {versionTags[i] : i \in 1..Len(versionTags)} \cap Tags

\* C6 as stated: when a refresh cycle has replaced the cache, the cache maps
\* each listed tag whose own options file exists and is a JSON array to the
\* content of that file, and has no other key.
C6_CacheIsArrayFilesOfListedTags ==
    rpc = "unlock" =>
        optionsCache =
            [t \in {x \in ListedTags : IsDescriptorArray(OptionsFile[x])} |->
                [nil |-> FALSE, items |-> OptionsFile[t].items]]

ClientCauses == {"malformed", "noBoard", "noVersion", "unknownVersion"}

ServerCauses == {"tempdir", "readBody", "settings", "cmake", "make", "artifact"}

StatusClass(status) ==
    CASE status = 400 -> "400"
      [] status = 500 -> "500"
      [] OTHER -> "none"

\* C7: every failure response carries as code the class of its HTTP status;
\* malformed JSON, a missing required member and an unknown version give 400;
\* a failed temp directory, body read, settings write or image read and a
\* failed cmake or make give 500.
C7_ErrorClassMatchesCause ==
    \A b \in Builders :
        LET r == bh[b]
        IN  /\ (r.pc = "return" /\ r.resp.status # 200) =>
                  /\ r.resp.status \in {400, 500}
                  /\ r.resp.written = 1
                  /\ r.resp.body.code = StatusClass(r.resp.status)
                  /\ r.cause \in ClientCauses \cup ServerCauses
            /\ r.cause \in ClientCauses => (r.pc \in {"return", "done"} /\ r.resp.status = 400)
            /\ r.cause \in ServerCauses => (r.pc \in {"return", "done"} /\ r.resp.status = 500)
            /\ (r.pc = "return" /\ BodyWasRead(r)) =>
                  /\ r.reqData.kind \in {"garbage", "array"} => r.cause = "malformed"
                  /\ (r.reqData.kind \in {"object", "null"} /\ LacksRequired(r.reqData)) =>
                        r.cause \in {"noBoard", "noVersion"}
                  /\ UnknownVersion(r) => r.cause = "unknownVersion"

\* Malformed JSON was answered 400.
C7_Witness ==
    \E b \in Builders :
        /\ bh[b].pc = "return" /\ bh[b].reqData.kind = "garbage"
        /\ bh[b].resp.status = 400 /\ bh[b].resp.body.code = "400"

\* C8: a failed cmake is answered 500 and make is not run; a failed make is
\* answered 500 and the image is not read; neither step is run twice.
C8_FailedStepEndsBuild ==
    \A b \in Builders :
        LET r == bh[b]
        IN  /\ r.calls.cmake <= 1 /\ r.calls.make <= 1
            /\ r.cause = "cmake" =>
                  /\ r.pc \in {"return", "done"}
                  /\ r.resp.status = 500
                  /\ r.pc = "return" =>
                        (r.calls.cmake = 1 /\ r.calls.make = 0 /\ r.calls.artifact = 0)
            /\ r.cause = "make" =>
                  /\ r.pc \in {"return", "done"}
                  /\ r.resp.status = 500
                  /\ r.pc = "return" =>
                        (r.calls.cmake = 1 /\ r.calls.make = 1 /\ r.calls.artifact = 0)

\* cmake failed and the 500 response is written.
C8_Witness ==
    \E b \in Builders :
        bh[b].pc = "return" /\ bh[b].cause = "cmake" /\ bh[b].resp.status = 500

\* The text of the error a failure response was made of.
ErrorTextOf(r) ==
    CASE r.cause = "tempdir" -> "mkdir: no space left on device"
      [] r.cause = "readBody" -> "unexpected EOF"
      [] r.cause = "malformed" -> "invalid character in JSON input"
      [] r.cause = "noBoard" -> "Board Option Must be Supplied!"
      [] r.cause = "noVersion" -> "Build Version Must be Supplied!"
      [] r.cause = "unknownVersion" -> "Build Version " \o r.version \o " is invalid!"
      [] r.cause = "settings" -> "write user_config.json: no space left on device"
      [] r.cause = "cmake" -> "exit status 1"
      [] r.cause = "make" -> "exit status 2"
      [] OTHER -> "open hex: no such file or directory"

\* C9: outside debug mode an error body is exactly code and the generic
\* message of its class; in debug mode the message is the error text and the
\* output of the failing tool is one more member of the body.
C9_ErrorBodyByMode ==
    \A b \in Builders :
        LET r == bh[b]
            body == r.resp.body
        IN  (r.pc = "return" /\ r.resp.status # 200) =>
              IF ~debugMode
              THEN body = [code |-> StatusClass(r.resp.status),
                           message |-> IF r.resp.status = 400 THEN "Bad Request"
                                       ELSE "Internal Server Error"]
              ELSE /\ body.code = StatusClass(r.resp.status)
                   /\ body.message = ErrorTextOf(r)
                   /\ r.cause = "cmake" =>
                         \E k \in DOMAIN body \ {"code", "message"} : body[k] = r.cmakeOut
                   /\ r.cause = "make" =>
                         \E k \in DOMAIN body \ {"code", "message"} : body[k] = r.makeOut
                   /\ Cardinality(DOMAIN body) =
                         IF r.cause \in {"cmake", "make"} THEN 3 ELSE 2

\* Outside debug mode cmake failed with output and the response is written.
C9_Witness ==
    \E b \in Builders :
        /\ ~debugMode /\ bh[b].pc = "return" /\ bh[b].cause = "cmake"
        /\ bh[b].cmakeOut = "output-b"

Occurrences(seq, x) == Cardinality({i \in 1..Len(seq) : seq[i] = x})

\* C10: the options handed to cmake hold no option for BuildVersion and
\* exactly one option name=value for every other member of the request whose
\* value is a string, board included.
C10_StringOptionsPassed ==
    \A b \in Builders :
        LET r == bh[b]
            members == r.reqData.members
        IN  r.pc \in {"rlock2", "cloning", "runlock2", "checkout", "settings", "cmake"} =>
              /\ \A v \in ReqVersions \cup {""} :
                    Occurrences(r.cmakeOpts, "-DBuildVersion=" \o v) = 0
              /\ \A k \in DOMAIN members \ {"BuildVersion"} :
                    members[k].t = "string" =>
                        Occurrences(r.cmakeOpts, "-D" \o k \o "=" \o members[k].s) = 1
              /\ Occurrences(r.cmakeOpts, "-Dboard=" \o r.board) = 1

\* cmake is about to run for a request with board and TEMP_UNIT.
C10_Witness ==
    \E b \in Builders :
        /\ bh[b].pc = "cmake"
        /\ "TEMP_UNIT" \in DOMAIN bh[b].reqData.members
        /\ Len(bh[b].cmakeOpts) = 3

\* The request has passed validation and its cmake options are made.
FlagsMade(r) == r.pc \in {"rlock2", "cloning", "runlock2", "checkout", "settings", "cmake"}

\* C11 as stated: for a request that passed validation, every member of the
\* body whose value is an integer is among the options handed to cmake, as
\* name=value with the integer in decimal.
C11_IntegerOptionsPassed ==
    \A b \in Builders :
        LET r == bh[b]
            members == r.reqData.members
        IN  FlagsMade(r) =>
              \A k \in DOMAIN members \ {"BuildVersion"} :
                  members[k].t = "number" =>
                      Occurrences(r.cmakeOpts, "-D" \o k \o "=" \o ToString(members[k].n)) >= 1

\* C12: the poll worker leaves the bootstrap for the refresh loop only with a
\* mirror directory that exists; without one it has panicked, the cache is as
\* NewServer left it, and no step of the poll worker or of a handler follows
\* the panic.
C12_BootstrapFailureIsFatal ==
    /\ [](~mirror.exists =>
            /\ rpc \in {"start", "bootLock", "bootstrap", "panicked"}
            /\ optionsCache = EmptyMap /\ published = EmptyMap)
    /\ [][rpc # "panicked"]_vars

\* The bootstrap has failed while a build request was waiting for the lock.
C12_Witness ==
    /\ rpc = "panicked" /\ ~mirror.exists /\ mu.writer
    /\ \E b \in Builders : bh[b].pc = "rlock1"

\* C13 as stated: whenever cmake is invoked for a request, its temp directory
\* holds a clone of the mirror checked out at the requested BuildVersion.
C13_ConfigureOnRequestedVersion ==
    \A b \in Builders :
        bh[b].pc = "cmake" =>
            /\ bh[b].ws.exists
            /\ bh[b].ws.head = bh[b].version

C15_CacheReplacedOncePerCycle ==
    [][/\ optionsCache' # optionsCache =>
            /\ rpc = "options" /\ rpc' = "unlock"
            /\ idx > Len(versionTags)
            /\ mu.writer /\ mu'.writer
            /\ optionsCache' = optsManifest
       /\ (rpc = "options" /\ rpc' # "options") =>
            (rpc' = "unlock" /\ optionsCache' = optsManifest /\ idx > Len(versionTags))
       /\ (rpc' = "unlock" /\ rpc # "unlock") => rpc = "options"
       /\ (rpc = "unlock" /\ rpc' # "unlock") => (rpc' = "loop" /\ ~mu'.writer)
       /\ (home' # home \/ opc' # opc \/ opts' # opts \/ bh' # bh) =>
            optionsCache' = optionsCache]_vars

\* A cycle has replaced the cache by a manifest with entries, after handlers
\* of the three kinds have run.
C15_Witness ==
    /\ rpc = "unlock" /\ DOMAIN optionsCache # {}
    /\ home # NoInfo /\ opc = "rlock"
    /\ \E b \in Builders : bh[b].pc = "rlock1"

\* C16: a handler that has returned, or is about to, has written exactly one
\* response, and one that still runs has written none; a 200 response has the
\* member binary, the image of the board the request names, and is written
\* only for a request whose version was found valid, whose cmake and make
\* each ran once and did not fail, and whose image was read.
C16_SuccessCarriesArtifact ==
    \A b \in Builders :
        LET r == bh[b]
        IN  /\ r.resp.written = IF r.pc \in {"return", "done"} THEN 1 ELSE 0
            /\ r.resp.status = 200 =>
                  /\ r.pc \in {"return", "done"}
                  /\ r.cause = ""
            /\ (r.pc = "return" /\ r.resp.status = 200) =>
                  /\ "binary" \in DOMAIN r.resp.body
                  /\ r.reqData.kind = "object"
                  /\ r.resp.body.binary = Artifact(r.reqData.members["board"].s, r.ws)
                  /\ r.looked /\ r.validVer
                  /\ r.calls.cmake = 1 /\ r.calls.make = 1 /\ r.calls.artifact = 1

\* A build has worked in debug mode and its response is written.
C16_Witness ==
    \E b \in Builders :
        /\ bh[b].pc = "return" /\ bh[b].resp.status = 200 /\ debugMode
        /\ "make-output" \in DOMAIN bh[b].resp.body

(***************************************************************************)
(* Progress.  The poll worker and the lock users under the scheduling the  *)
(* code relies on, for a service started without -debug whose upstream     *)
(* holds the first and the last tag at most and whose build requests name  *)
(* a board and a version.  HomeHandler, which takes no lock, is left out.  *)
(*                                                                         *)
(* Every step of a running goroutine is taken in the end (external         *)
(* commands terminate, time.Sleep ends): weak fairness.  A request need    *)
(* not arrive: no fairness on O_Begin and BH_TempDir.  RLock is disabled   *)
(* again and again by the poll worker's Lock; sync.RWMutex.Unlock hands    *)
(* the lock to the readers that wait before a later Lock can have it, and  *)
(* the poll worker then sleeps: strong fairness.                           *)
(***************************************************************************)
LiveTags == {TagName(1), TagName(NumTags)}

LiveBodies == {ObjectBody(JStr("mega2560"), JStr(v), NoMember, NoMember) : v \in ReqVersions}

LiveOutput == "output-a"

LiveScope ==
    /\ mirror.tags \subseteq LiveTags
    /\ \A b \in Builders :
          /\ bh[b].reqData \in LiveBodies \cup {NullBody}
          /\ bh[b].cmakeOut \in {"", LiveOutput}
          /\ bh[b].makeOut \in {"", LiveOutput}

LiveInit == Init /\ ~debugMode

LiveNext ==
    \/ Refresher /\ LiveScope'
    \/ OptionsHandler /\ LiveScope'
    \/ \E b \in Builders : BuildHandler(b) /\ LiveScope'

\* The steps of a build request that has arrived, other than its two RLock.
BuildSteps(b) ==
    \/ BH_ReadBody(b) \/ BH_Unmarshal(b) \/ BH_Board(b) \/ BH_Version(b)
    \/ BH_Lookup(b) \/ BH_RUnlock1(b) \/ BH_CheckValid(b) \/ BH_Flags(b)
    \/ BH_Clone(b) \/ BH_RUnlock2(b) \/ BH_Checkout(b) \/ BH_WriteSettings(b)
    \/ BH_Cmake(b) \/ BH_Make(b) \/ BH_Artifact(b) \/ BH_Return(b)

Fairness ==
    /\ WF_vars(Refresher /\ LiveScope')
    /\ WF_vars((O_Marshal \/ O_RUnlockWrite) /\ LiveScope')
    /\ SF_vars(O_RLock /\ LiveScope')
    /\ \A b \in Builders :
          /\ WF_vars(BuildSteps(b) /\ LiveScope')
          /\ SF_vars(BH_RLock1(b) /\ LiveScope')
          /\ SF_vars(BH_RLock2(b) /\ LiveScope')

LiveSpec == LiveInit /\ [][LiveNext]_vars /\ Fairness

(***************************************************************************)
(* The whole service, HomeHandler included, in either mode, with the       *)
(* upstream tags and the request bodies of LiveScope.                      *)
(***************************************************************************)
ServiceNext ==
    \/ Refresher /\ LiveScope'
    \/ OptionsHandler /\ LiveScope'
    \/ HomeHandler /\ LiveScope'
    \/ \E b \in Builders : BuildHandler(b) /\ LiveScope'

ServiceSpec == Init /\ [][ServiceNext]_vars

C19_LocksReleasedCallsAnswered ==
    /\ [](rpc = "loop" => ~mu.writer)
    /\ mu.writer ~> (~mu.writer \/ rpc = "panicked")
    /\ (rpc = "lock") ~> (rpc = "deleteTags")
    /\ (opc # "idle") ~> (opc = "idle" \/ rpc = "panicked")
    /\ \A b \in Builders :
          (bh[b].pc \notin {"idle", "done"})
              ~> ((bh[b].pc = "done" /\ bh[b].resp.written = 1) \/ rpc = "panicked")

\* The poll worker's Lock waits for a clone to end while a GET /options call
\* waits behind it.
C19_Witness ==
    /\ rpc = "lock" /\ mu.pending
    /\ opc = "rlock"
    /\ \E b \in Builders : bh[b].pc = "cloning" /\ b \in mu.readers

NonBlank(entries) == SelectSeq(entries, LAMBDA t : t # "")

\* C17 as stated: whatever the listing, the filter loop leaves versionTags
\* with every non-blank entry of the listing, in order, and no blank one, and
\* the cache never has the empty string as a key.
C17_FilterDiscardsBlanks ==
    /\ [][(rpc = "filter" /\ rpc' # "filter") => versionTags' = NonBlank(versionTags)]_vars
    /\ []("" \notin DOMAIN optionsCache)

\* C20 as stated: whatever the listing, the poll worker does not stop between
\* the Lock of line 63 and the Unlock of line 94.
C20_FilterNeverPanics ==
    ~(rpc = "panicked" /\ mirror.exists /\ mu.writer)

====
